---- MODULE Spec2Model ----
(***************************************************************************)
(* A model of tstromberg/ucd: the evidence collector (pkg/ucd/changes.go   *)
(* and its Config-based predecessors), the prompt builder and the response *)
(* extractor/parser (pkg/ucd/analyze.go and its predecessors).             *)
(*                                                                         *)
(* The repository holds several iterations of the same functions; the      *)
(* variable `variant` (analysis side) and `cvariant` (collection side)     *)
(* select which iteration a run executes.                                  *)
(*                                                                         *)
(* Text is modelled as a sequence of tokens.  A token is a record          *)
(*   [k |-> kind, w |-> words, n |-> number]                               *)
(* kind "p" is one punctuation character (w = <<c>>), "s" a JSON string    *)
(* literal whose content is the fragments w, "i" a JSON integer literal of *)
(* value n, "nl" a line break, "fence" the three backquotes, "label" the   *)
(* word json directly after a fence, "text" a run of prose without any of  *)
(* the characters above.                                                   *)
(***************************************************************************)
EXTENDS Integers, Sequences, FiniteSets, TLC

\* ------------------------------------------------------------------ tokens

P(c) == [k |-> "p", w |-> <<c>>, n |-> 0]
S(ws) == [k |-> "s", w |-> ws, n |-> 0]
I(v) == [k |-> "i", w |-> <<>>, n |-> v]
NL == [k |-> "nl", w |-> <<>>, n |-> 0]
FENCE == [k |-> "fence", w |-> <<>>, n |-> 0]
LABEL == [k |-> "label", w |-> <<>>, n |-> 0]
TEXT(ws) == [k |-> "text", w |-> ws, n |-> 0]

LBRACE == P("{")
RBRACE == P("}")
LBRACK == P("[")
RBRACK == P("]")
COMMA == P(",")
COLON == P(":")

\* The text "[]", the empty-array sentinel of parseAIResponse.
EmptyArrayText == <<LBRACK, RBRACK>>

\* s[a..b], empty when b < a.
Slice(s, a, b) == IF b < a THEN <<>> ELSE SubSeq(s, a, b)

\* ------------------------------------------------------- regular expressions

\* Where the code-block pattern's group starts for a match attempt at the
\* fence at i: after the optional label and the optional line break.
GroupStart(t, i) ==
  LET p1 == IF i + 1 <= Len(t) /\ t[i + 1] = LABEL THEN i + 2 ELSE i + 1
  IN IF p1 <= Len(t) /\ t[p1] = NL THEN p1 + 1 ELSE p1

\* The closing token of the group alternative that starts at p.
Closer(t, p) == IF t[p] = LBRACE THEN RBRACE ELSE RBRACK

\* Whether the tail of the code-block pattern (optional line break, fence)
\* matches right after position e.
TailMatches(t, e) ==
  \/ e + 1 <= Len(t) /\ t[e + 1] = FENCE
  \/ e + 2 <= Len(t) /\ t[e + 1] = NL /\ t[e + 2] = FENCE

\* The ends e of a group match starting at p: the closer at e, no line break
\* strictly between (the dot does not match a line break without the s flag),
\* and the tail of the pattern right after.
GroupEnds(t, p) ==
  {e \in (p + 1)..Len(t) :
     /\ t[e] = Closer(t, p)
     /\ \A m \in (p + 1)..(e - 1) : t[m] # NL
     /\ TailMatches(t, e)}

\* Whether the code-block pattern, its group opening with one of opens,
\* matches starting at the fence at i.
MatchesAt(t, i, opens) ==
  /\ t[i] = FENCE
  /\ LET p == GroupStart(t, i)
     IN /\ p <= Len(t)
        /\ t[p] \in opens
        /\ GroupEnds(t, p) # {}

Min(set) == CHOOSE x \in set : \A y \in set : x <= y
Max(set) == CHOOSE x \in set : \A y \in set : x >= y

\* codeBlockRegex.FindStringSubmatch: the group of the leftmost match, the
\* lazy quantifier taking the nearest end; <<>> when nothing matches.
CodeBlockGroup(t, opens) ==
  LET starts == {i \in 1..Len(t) : MatchesAt(t, i, opens)}
  IN IF starts = {} THEN <<>>
     ELSE LET p == GroupStart(t, Min(starts))
          IN Slice(t, p, Min(GroupEnds(t, p)))

\* regexp (?s)open.*close .FindString: from the first open to the last close
\* after it (greedy, the dot matching line breaks); <<>> when nothing matches.
GreedySpan(t, open, close) ==
  LET os == {i \in 1..Len(t) : t[i] = open}
  IN IF os = {} THEN <<>>
     ELSE LET cs == {j \in (Min(os) + 1)..Len(t) : t[j] = close}
          IN IF cs = {} THEN <<>> ELSE Slice(t, Min(os), Max(cs))

\* ------------------------------------------------------------ encoding/json

\* The first position at or after i that holds no white space (Len(t) + 1
\* when there is none).
RECURSIVE SkipWS(_, _)
SkipWS(t, i) ==
  IF i <= Len(t) /\ t[i] = NL THEN SkipWS(t, i + 1) ELSE i

\* The scanner of encoding/json: the position right after the JSON value that
\* starts at or after i, or 0 when the text is no JSON value there.
RECURSIVE ValueEnd(_, _), ObjectRest(_, _, _), ArrayRest(_, _, _)
ValueEnd(t, i) ==
  LET j == SkipWS(t, i)
  IN IF j > Len(t) THEN 0
     ELSE IF t[j].k \in {"s", "i"} THEN j + 1
     ELSE IF t[j] = LBRACE THEN ObjectRest(t, j + 1, TRUE)
     ELSE IF t[j] = LBRACK THEN ArrayRest(t, j + 1, TRUE)
     ELSE 0

\* The members of an object from i on; first: no member has been read yet.
ObjectRest(t, i, first) ==
  LET j == SkipWS(t, i)
  IN IF j > Len(t) THEN 0
     ELSE IF first /\ t[j] = RBRACE THEN j + 1
     ELSE IF t[j].k # "s" THEN 0
     ELSE LET c == SkipWS(t, j + 1)
          IN IF c > Len(t) \/ t[c] # COLON THEN 0
             ELSE LET e == ValueEnd(t, c + 1)
                      x == SkipWS(t, e)
                  IN IF e = 0 \/ x > Len(t) THEN 0
                     ELSE IF t[x] = RBRACE THEN x + 1
                     ELSE IF t[x] = COMMA THEN ObjectRest(t, x + 1, FALSE)
                     ELSE 0

\* The elements of an array from i on; first: no element has been read yet.
ArrayRest(t, i, first) ==
  LET j == SkipWS(t, i)
  IN IF j > Len(t) THEN 0
     ELSE IF first /\ t[j] = RBRACK THEN j + 1
     ELSE LET e == ValueEnd(t, j)
              x == SkipWS(t, e)
          IN IF e = 0 \/ x > Len(t) THEN 0
             ELSE IF t[x] = RBRACK THEN x + 1
             ELSE IF t[x] = COMMA THEN ArrayRest(t, x + 1, FALSE)
             ELSE 0

\* json.checkValid: the whole text is one JSON value, white space around it.
Valid(t) ==
  LET e == ValueEnd(t, 1)
  IN e # 0 /\ SkipWS(t, e) = Len(t) + 1

\* The members of the object whose opening brace is at i - 1, in order, each
\* <<key position, value start, position after the value>>.  Only used on
\* text that checkValid accepted.
RECURSIVE ObjectMembers(_, _)
ObjectMembers(t, i) ==
  LET j == SkipWS(t, i)
  IN IF t[j] = RBRACE THEN <<>>
     ELSE LET c == SkipWS(t, j + 1)
              v == SkipWS(t, c + 1)
              e == ValueEnd(t, v)
              x == SkipWS(t, e)
          IN <<<<j, v, e>>>> \o (IF t[x] = COMMA THEN ObjectMembers(t, x + 1)
                                 ELSE <<>>)

\* The elements of the array whose opening bracket is at i - 1, in order,
\* each <<value start, position after the value>>.
RECURSIVE ArrayElements(_, _)
ArrayElements(t, i) ==
  LET j == SkipWS(t, i)
  IN IF t[j] = RBRACK THEN <<>>
     ELSE LET e == ValueEnd(t, j)
              x == SkipWS(t, e)
          IN <<<<j, e>>>> \o (IF t[x] = COMMA THEN ArrayElements(t, x + 1)
                              ELSE <<>>)

\* strings.ToLower / the folding of (?i) and of encoding/json's field match,
\* on the fragments the model uses; every other fragment is lower case.
ToLower(x) ==
  CASE x = "README" -> "readme"
    [] x = "CI " -> "ci "
    [] x = ".GitHub/" -> ".github/"
    [] x = "Workflow" -> "workflow"
    [] x = "Documentation" -> "documentation"
    [] x = "Changes" -> "changes"
    [] x = "Benign" -> "benign"
    [] x = "BENIGN" -> "benign"
    [] x = "bEnIgN" -> "benign"
    [] x = "Suspicious" -> "suspicious"
    [] x = "SUSPICIOUS" -> "suspicious"
    [] x = "sUsPiCiOuS" -> "suspicious"
    [] x = "Silent Security Fix" -> "silent security fix"
    [] x = "SILENT SECURITY FIX" -> "silent security fix"
    [] x = "sIlEnT sEcUrItY fIx" -> "silent security fix"
    [] x = "Possibly Malicious" -> "possibly malicious"
    [] x = "POSSIBLY MALICIOUS" -> "possibly malicious"
    [] x = "pOsSiBlY mAlIcIoUs" -> "possibly malicious"
    [] x = "Definitely Malicious" -> "definitely malicious"
    [] x = "DEFINITELY MALICIOUS" -> "definitely malicious"
    [] x = "dEfInItElY mAlIcIoUs" -> "definitely malicious"
    [] OTHER -> x

\* The struct field a JSON key selects: encoding/json matches the key against
\* the json tags exactly or, failing that, case-insensitively; the tags are all
\* lower case.  "" for a key of several fragments, which no tag equals.
FieldName(key) == IF Len(key.w) = 1 THEN ToLower(key.w[1]) ELSE ""

\* The zero value of a struct with the string fields sf and the int fields nf.
ZeroStruct(sf, nf) == [s |-> [f \in sf |-> <<>>], i |-> [f \in nf |-> 0]]

\* json's decoding of an object's members into a struct, member k onwards.
\* acc is [val, err]: the struct so far and whether an UnmarshalTypeError was
\* saved.  A member of an unknown key is skipped; a value of the wrong JSON
\* type saves the error, leaves the field alone, and the decoding goes on.
RECURSIVE DecodeFields(_, _, _, _)
DecodeFields(t, members, k, acc) ==
  IF k > Len(members) THEN acc
  ELSE LET name == FieldName(t[members[k][1]])
           tok == t[members[k][2]]
           next ==
             IF name \in DOMAIN acc.val.s
             THEN IF tok.k = "s"
                  THEN [acc EXCEPT !.val.s[name] = tok.w]
                  ELSE [acc EXCEPT !.err = TRUE]
             ELSE IF name \in DOMAIN acc.val.i
             THEN IF tok.k = "i"
                  THEN [acc EXCEPT !.val.i[name] = tok.n]
                  ELSE [acc EXCEPT !.err = TRUE]
             ELSE acc
       IN DecodeFields(t, members, k + 1, next)

\* json's decoding of the value at v into a struct: an object fills the
\* fields, any other JSON value is an UnmarshalTypeError and leaves the zero
\* struct.
DecodeStruct(t, v, sf, nf) ==
  IF t[v] = LBRACE
  THEN DecodeFields(t, ObjectMembers(t, v + 1), 1,
                    [val |-> ZeroStruct(sf, nf), err |-> FALSE])
  ELSE [val |-> ZeroStruct(sf, nf), err |-> TRUE]

\* The slice so far with one more decoded element, and its saved error.
AppendElement(acc, d) ==
  [val |-> Append(acc.val, d.val), err |-> acc.err \/ d.err]

\* json's decoding of array elements k onwards into a slice of structs.
RECURSIVE DecodeElements(_, _, _, _, _, _)
DecodeElements(t, elems, k, sf, nf, acc) ==
  IF k > Len(elems) THEN acc
  ELSE DecodeElements(t, elems, k + 1, sf, nf,
         AppendElement(acc, DecodeStruct(t, elems[k][1], sf, nf)))

\* json's decoding of the value at v into a slice of structs: an array gives
\* its elements, any other JSON value is an UnmarshalTypeError and leaves the
\* slice nil.
DecodeSlice(t, v, sf, nf) ==
  IF t[v] = LBRACK
  THEN DecodeElements(t, ArrayElements(t, v + 1), 1, sf, nf,
                      [val |-> <<>>, err |-> FALSE])
  ELSE [val |-> <<>>, err |-> TRUE]

\* ------------------------------------------------ the iterations of the code

\* The iterations of the analysis side that the repository holds.
AnalyzeVariants == {"analyze", "analyze_old", "part_003", "part_006"}

\* The json tag of the Result field that holds the findings.
ListKey(v) == IF v = "analyze" THEN "undocumented_changes" ELSE "changes"

\* The string and the int fields of the struct a finding is decoded into.
StrFields(v) ==
  CASE v \in {"analyze", "part_003"} ->
         {"description", "malware_explanation", "silent_explanation"}
    [] v = "analyze_old" -> {"description", "explanation"}
    [] v = "part_006" -> {"description", "rating", "explanation"}

IntFields(v) ==
  CASE v \in {"analyze", "part_003"} -> {"malware_risk", "silent_patch"}
    [] v = "analyze_old" -> {"rating"}
    [] v = "part_006" -> {}

\* &Result{}: no findings, no summary, no input.
EmptyResult == [changes |-> <<>>, summary |-> <<>>, input |-> <<>>]

\* The Result so far with the decoded list of findings, or with the decoded
\* summary, put in its field (a value of another JSON type leaves the field
\* alone), and the saved error.
SetChanges(acc, d, isArray) ==
  [val |-> IF isArray THEN [acc.val EXCEPT !.changes = d.val] ELSE acc.val,
   err |-> acc.err \/ d.err]

SetSummary(acc, d, isObject) ==
  [val |-> IF isObject THEN [acc.val EXCEPT !.summary = <<d.val>>]
           ELSE acc.val,
   err |-> acc.err \/ d.err]

\* json's decoding of the top-level object's members into a Result, member k
\* onwards.  (The Input field's tag is not modelled: no response of the
\* model carries an "input" member.)
RECURSIVE DecodeResultFields(_, _, _, _, _)
DecodeResultFields(t, members, k, v, acc) ==
  IF k > Len(members) THEN acc
  ELSE LET name == FieldName(t[members[k][1]])
           at == members[k][2]
           next ==
             IF name = ListKey(v)
             THEN SetChanges(acc,
                             DecodeSlice(t, at, StrFields(v), IntFields(v)),
                             t[at] = LBRACK)
             ELSE IF name = "summary"
             THEN SetSummary(acc,
                             DecodeStruct(t, at, StrFields(v), IntFields(v)),
                             t[at] = LBRACE)
             ELSE acc
       IN DecodeResultFields(t, members, k + 1, v, next)

\* json.Unmarshal([]byte(jsonText), &result): [val, err], err "" for nil,
\* "syntax" for a SyntaxError (nothing is decoded), "type" for an
\* UnmarshalTypeError (the rest is decoded all the same).
Decoded(d) == [val |-> d.val, err |-> IF d.err THEN "type" ELSE ""]

UnmarshalResult(t, v) ==
  IF ~Valid(t) THEN [val |-> EmptyResult, err |-> "syntax"]
  ELSE IF t[SkipWS(t, 1)] = LBRACE
  THEN Decoded(DecodeResultFields(t, ObjectMembers(t, SkipWS(t, 1) + 1), 1, v,
                                  [val |-> EmptyResult, err |-> FALSE]))
  ELSE [val |-> EmptyResult, err |-> "type"]

\* json.Unmarshal([]byte(jsonText), &changes) of parseResponse: into a slice
\* of structs of three strings.
UnmarshalChanges(t) ==
  IF ~Valid(t) THEN [val |-> <<>>, err |-> "syntax"]
  ELSE Decoded(DecodeSlice(t, SkipWS(t, 1), StrFields("part_006"), {}))

\* ------------------------------------------------------------------ ratings

RatingUnknown == 0
RatingBenign == 1
RatingSilentSecurityFix == 2
RatingSuspicious == 3
RatingPossiblyMalicious == 4
RatingDefinitelyMalicious == 5

ParseRatingExact(label) ==
  IF Len(label) # 1 THEN RatingUnknown
  ELSE CASE label[1] = "benign" -> RatingBenign
         [] label[1] = "silent security fix" -> RatingSilentSecurityFix
         [] label[1] = "suspicious" -> RatingSuspicious
         [] label[1] = "possibly malicious" -> RatingPossiblyMalicious
         [] label[1] = "definitely malicious" -> RatingDefinitelyMalicious
         [] OTHER -> RatingUnknown

\* ParseRating: the Rating of a label, whatever its letter case.
ParseRating(label) ==
  IF Len(label) # 1 THEN RatingUnknown
  ELSE CASE ToLower(label[1]) = "benign" -> RatingBenign
         [] ToLower(label[1]) = "silent security fix" -> RatingSilentSecurityFix
         [] ToLower(label[1]) = "suspicious" -> RatingSuspicious
         [] ToLower(label[1]) = "possibly malicious" -> RatingPossiblyMalicious
         [] ToLower(label[1]) = "definitely malicious" ->
              RatingDefinitelyMalicious
         [] OTHER -> RatingUnknown

\* Rating.String: the glyph of a rating, named by its code points.
RatingString(r) ==
  CASE r = RatingBenign -> "U+1F7E2"
    [] r = RatingSilentSecurityFix -> "U+1F6E1 U+FE0F"
    [] r = RatingSuspicious -> "U+1F7E0"
    [] r = RatingPossiblyMalicious -> "U+1F6A8"
    [] r = RatingDefinitelyMalicious -> "U+1F608"
    [] OTHER -> "Unknown"

\* ------------------------------------------------------- the response parser

\* skipChangePattern.MatchString(description): the description holds one of
\* the pattern's alternatives, in any letter case.
skipChangePattern(description) ==
  \E k \in 1..Len(description) :
    ToLower(description[k]) \in
      {".gitignore", "readme", ".github/", "ci ", "documentation", "comment",
       "test file", "workflow"}

\* An error value: the format it was made with, the decoder's error it
\* carries ("" for none) and the text it carries.
\* via lists what fmt.Errorf("...: %w") wrapped it in, outermost first.
NoError == [msg |-> "", cause |-> "", text |-> <<>>, via |-> <<>>]
Error(msg, cause, text) ==
  [msg |-> msg, cause |-> cause, text |-> text, via |-> <<>>]
Wrap(prefix, err) == [err EXCEPT !.via = <<prefix>> \o @]

\* extractJSON of analyze.go (both iterations) and part_003: the group of a
\* fenced block on one line, else the widest brace-delimited span, else "".
extractJSON(response) ==
  LET block == CodeBlockGroup(response, {LBRACE, LBRACK})
  IN IF block # <<>> THEN block
     ELSE GreedySpan(response, LBRACE, RBRACE)

\* extractJSON of part_006: the widest bracket-delimited span, else the group
\* of a fenced block holding an array, else ErrInvalidJSON (here <<>>).
extractJSONArray(response) ==
  LET span == GreedySpan(response, LBRACK, RBRACK)
  IN IF span # <<>> THEN span
     ELSE CodeBlockGroup(response, {LBRACK})

\* What a parse gives: res, the *Result (<<>> for nil, <<r>> otherwise); err;
\* jsonText, the extracted payload; decoded, whether json.Unmarshal ran.
Parsed(res, err, jsonText, decoded) ==
  [res |-> res, err |-> err, jsonText |-> jsonText, decoded |-> decoded]

\* parseAIResponse of analyze.go lines 179-197, in three steps: what it
\* returns once json.Unmarshal gave u, what it does with the extracted
\* jsonText, and the whole of it.
unmarshalled(u, jsonText) ==
  IF u.err # ""
  THEN Parsed(<<>>, Error("unmarshal", u.err, jsonText), jsonText, TRUE)
  ELSE Parsed(<<u.val>>, NoError, jsonText, TRUE)

parseJSONText(response, jsonText) ==
  IF jsonText = <<>>
  THEN Parsed(<<>>, Error("couldn't extract JSON from response", "", response),
              jsonText, FALSE)
  ELSE IF jsonText = EmptyArrayText
  THEN Parsed(<<EmptyResult>>, NoError, jsonText, FALSE)
  ELSE unmarshalled(UnmarshalResult(jsonText, "analyze"), jsonText)

parseAIResponse(response) == parseJSONText(response, extractJSON(response))

\* parseAIResponse of analyze.go lines 330-345 and of part_003: the Result is
\* returned beside the decoder's own error.
unmarshalledOld(u, jsonText) ==
  Parsed(<<u.val>>, IF u.err = "" THEN NoError ELSE Error("json", u.err, <<>>),
         jsonText, TRUE)

parseJSONTextOld(response, jsonText, v) ==
  IF jsonText = <<>>
  THEN Parsed(<<>>, Error("couldn't extract JSON from response", "", response),
              jsonText, FALSE)
  ELSE IF jsonText = EmptyArrayText
  THEN Parsed(<<EmptyResult>>, NoError, jsonText, FALSE)
  ELSE unmarshalledOld(UnmarshalResult(jsonText, v), jsonText)

parseAIResponseOld(response, v) ==
  parseJSONTextOld(response, extractJSON(response), v)

\* The loop of parseResponse: the items whose description holds none of the
\* four substrings (strings.Contains, letter case as written), each as a
\* Change with its parsed Rating.
RECURSIVE ConvertRated(_, _)
ConvertRated(items, k) ==
  IF k > Len(items) THEN <<>>
  ELSE LET d == items[k].s["description"]
           skip == \/ \E m \in 1..Len(d) :
                        d[m] \in {".gitignore", "README", ".github/", "CI "}
                   \/ ParseRating(items[k].s["rating"]) = RatingUnknown
           change == [s |-> [f \in {"description", "explanation"} |->
                               items[k].s[f]],
                      i |-> [f \in {"rating"} |->
                               ParseRating(items[k].s["rating"])]]
       IN (IF skip THEN <<>> ELSE <<change>>) \o ConvertRated(items, k + 1)

RECURSIVE ConvertChanges(_, _)
ConvertChanges(items, k) ==
  IF k > Len(items) THEN <<>>
  ELSE LET d == items[k].s["description"]
           skip == \E m \in 1..Len(d) :
                     d[m] \in {".gitignore", "README", ".github/", "CI "}
           change == [s |-> [f \in {"description", "explanation"} |->
                               items[k].s[f]],
                      i |-> [f \in {"rating"} |->
                               ParseRating(items[k].s["rating"])]]
       IN (IF skip THEN <<>> ELSE <<change>>) \o ConvertChanges(items, k + 1)

\* parseResponse of part_006.
unmarshalledChanges(u, jsonText) ==
  IF u.err # ""
  THEN Parsed(<<>>, Error("invalid JSON response", u.err, jsonText),
              jsonText, TRUE)
  ELSE Parsed(<<[EmptyResult EXCEPT !.changes = ConvertChanges(u.val, 1)]>>,
              NoError, jsonText, TRUE)

parseJSONArrayText(jsonText) ==
  IF jsonText = <<>>
  THEN Parsed(<<>>, Error("invalid JSON response", "", <<>>), jsonText, FALSE)
  ELSE IF jsonText = EmptyArrayText
  THEN Parsed(<<EmptyResult>>, NoError, jsonText, FALSE)
  ELSE unmarshalledChanges(UnmarshalChanges(jsonText), jsonText)

parseResponse(response) == parseJSONArrayText(extractJSONArray(response))

\* The response parser of iteration v.
Parse(response, v) ==
  CASE v = "analyze" -> parseAIResponse(response)
    [] v \in {"analyze_old", "part_003"} -> parseAIResponseOld(response, v)
    [] v = "part_006" -> parseResponse(response)

\* -------------------------------------------------------------- plain text

\* A string that is not parsed is a record [id, len]: the text named id, cut
\* to its first len bytes.  A prompt is a sequence of such pieces.
Str(id, len) == [id |-> IF len = 0 THEN "" ELSE id, len |-> len]
EmptyStr == Str("", 0)

\* A literal piece of a format string or template: its place and byte count.
Lit(id, len) == Str(id, len)

RECURSIVE TextLen(_)
TextLen(pieces) ==
  IF pieces = <<>> THEN 0 ELSE Head(pieces).len + TextLen(Tail(pieces))

\* prompt[:limit] for a prompt longer than limit: the pieces up to the cut,
\* the piece under the cut shortened.
RECURSIVE Prefix(_, _)
Prefix(pieces, limit) ==
  IF pieces = <<>> \/ limit <= 0 THEN <<>>
  ELSE IF Head(pieces).len <= limit
  THEN <<Head(pieces)>> \o Prefix(Tail(pieces), limit - Head(pieces).len)
  ELSE <<Str(Head(pieces).id, limit)>>

\* ------------------------------------------------------- the prompt builder

\* const maxPromptLength of iteration v.
maxPromptLength(v) ==
  IF v \in {"analyze", "part_003"} THEN 2000000 ELSE 100000

\* promptTmpl.Execute(&buf, data) of analyze.go: the template's literal text
\* with the fields of data in their places; a with-block is rendered when its
\* field is not empty.
RenderTemplate(data) ==
  <<Lit("tmpl:intro", 148)>>
  \o (IF data.ProgramName.len > 0
      THEN <<Lit("tmpl:name", 45), data.ProgramName, Lit("tmpl:name-end", 33)>>
      ELSE <<>>)
  \o <<Lit("tmpl:nl", 1)>>
  \o (IF data.ProgramDesc.len > 0
      THEN <<Lit("tmpl:desc", 53), data.ProgramDesc, Lit("tmpl:desc-end", 1)>>
      ELSE <<>>)
  \o <<Lit("tmpl:provide", 64), data.VersionA, Lit("tmpl:and", 5),
       data.VersionB, Lit("tmpl:from", 16), data.Source,
       Lit("tmpl:task", 3210), data.Diff, Lit("tmpl:commits", 19),
       data.CommitMessages, Lit("tmpl:changelog", 21), data.Changelog,
       Lit("tmpl:ensure", 55)>>

\* fmt.Sprintf of the format strings of the earlier iterations: head, and,
\* task, tail are the byte counts of the literal text around the five verbs.
RenderFormat(data, head, task, tail) ==
  <<Lit("fmt:head", head), data.VersionA, Lit("fmt:and", 5), data.VersionB,
    Lit("fmt:task", task), data.Diff, Lit("fmt:commits", 19),
    data.CommitMessages, Lit("fmt:changelog", 21), data.Changelog,
    Lit("fmt:tail", tail)>>

\* The prompt of iteration v before its length is looked at.
Render(data, v) ==
  CASE v = "analyze" -> RenderTemplate(data)
    [] v = "analyze_old" -> RenderFormat(data, 158, 548, 1817)
    [] v = "part_003" -> RenderFormat(data, 158, 3792, 1)
    [] v = "part_006" -> RenderFormat(data, 138, 446, 678)

\* buildPrompt of analyze.go lines 161-176 and of part_003: [prompt, err];
\* a prompt over the limit is an error and no prompt.
buildPromptReject(data, v) ==
  LET prompt == Render(data, v)
  IN IF TextLen(prompt) > maxPromptLength(v)
     THEN [prompt |-> <<>>,
           err |-> Error("too much data to analyze", "", <<>>)]
     ELSE [prompt |-> prompt, err |-> NoError]

\* buildPrompt of analyze.go lines 271-327, and createPrompt with the cut of
\* Analyzer.Analyze (part_006 lines 41-47): a prompt over the limit is cut to
\* the limit.
buildPromptTruncate(data, v) ==
  LET prompt == Render(data, v)
  IN [prompt |-> IF TextLen(prompt) > maxPromptLength(v)
                 THEN Prefix(prompt, maxPromptLength(v))
                 ELSE prompt,
      err |-> NoError]

\* The prompt builder of iteration v.
buildPrompt(data, v) ==
  IF v \in {"analyze", "part_003"} THEN buildPromptReject(data, v)
  ELSE buildPromptTruncate(data, v)

\* ------------------------------------------------- what the model may answer

\* The most findings one answer of the model carries.
MaxFindings == 2

\* An object member: the key, the colon, the tokens of the value.
Member(name, value) == <<S(<<name>>), COLON>> \o value

\* The sequences parts joined, sep between two of them.
RECURSIVE JoinWith(_, _)
JoinWith(parts, sep) ==
  IF parts = <<>> THEN <<>>
  ELSE IF Len(parts) = 1 THEN parts[1]
  ELSE parts[1] \o sep \o JoinWith(Tail(parts), sep)

\* A bracketed list of items on one line, or (lines) one item per line.
Bracketed(open, close, items, lines) ==
  IF items = <<>> THEN <<open, close>>
  ELSE IF lines
  THEN <<open, NL>> \o JoinWith(items, <<COMMA, NL>>) \o <<NL, close>>
  ELSE <<open>> \o JoinWith(items, <<COMMA>>) \o <<close>>

Object(members, lines) == Bracketed(LBRACE, RBRACE, members, lines)
Array(elems, lines) == Bracketed(LBRACK, RBRACK, elems, lines)

\* One finding as the model writes it.
Finding(description, risk, patch, rating) ==
  Object(<<Member("description", <<S(description)>>),
           Member("malware_risk", <<risk>>),
           Member("silent_patch", <<patch>>),
           Member("rating", <<rating>>)>>, FALSE)

\* The findings the model chooses from: a plain one, one about a workflow
\* file, one with a score above ten, one with a word for a score and a label
\* no rating has, one with a negative score about the readme.
FindingPool ==
  <<Finding(<<"adds ", "backdoor">>, I(9), I(2), I(9)),
    Finding(<<"edits ", ".github/", "workflow", "s/build.yml">>,
            I(1), I(0), S(<<"Benign">>)),
    Finding(<<"fixes ", "overflow">>, I(0), I(11), I(11)),
    Finding(<<"opens ", "socket">>, S(<<"high">>), I(3), S(<<"Weird">>)),
    Finding(<<"updates ", "readme">>, I(-1), I(0), S(<<"Suspicious">>))>>

\* The findings of FindingPool at the places in set, in the pool's order.
RECURSIVE Pick(_, _)
Pick(set, k) ==
  IF k > Len(FindingPool) THEN <<>>
  ELSE (IF k \in set THEN <<FindingPool[k]>> ELSE <<>>) \o Pick(set, k + 1)

FindingLists ==
  {Pick(set, 1) : set \in {x \in SUBSET (1..Len(FindingPool)) :
                             Cardinality(x) <= MaxFindings}}

Summaries ==
  {Finding(<<"minor ", "changes">>, I(1), I(0), I(1)),
   Finding(<<"dangerous">>, I(12), I(0), I(12))}

\* The JSON payloads: an object with the findings under either list key, on
\* one line or several, with or without a summary; an array of findings; an
\* object whose array is never closed; and no payload at all.
ListKeys == {"undocumented_changes", "changes"}

ObjectPayloadsOf(key, fs) ==
  {Object(<<Member(key, Array(fs, FALSE))>>, lines) : lines \in BOOLEAN}
  \cup
  (IF Len(fs) > 1 THEN {}
   ELSE {Object(<<Member(key, Array(fs, FALSE)), Member("summary", sum)>>,
                FALSE) : sum \in Summaries})

ArrayPayloadsOf(fs) == {Array(fs, lines) : lines \in BOOLEAN}

ObjectPayloads ==
  UNION {ObjectPayloadsOf(key, fs) : key \in ListKeys, fs \in FindingLists}

ArrayPayloads == UNION {ArrayPayloadsOf(fs) : fs \in FindingLists}

BrokenPayloads ==
  {<<LBRACE>> \o Member("undocumented_changes", <<LBRACK>>) \o FindingPool[1]
   \o <<RBRACE>>}

Payloads == ObjectPayloads \cup ArrayPayloads \cup BrokenPayloads \cup {<<>>}

Arounds == {"none", "before", "after", "braces"}

\* The payload inside its fence.
Fenced(payload, fence) ==
  CASE fence = "none" -> payload
    [] fence = "json" -> <<FENCE, LABEL, NL>> \o payload \o <<NL, FENCE>>
    [] fence = "plain" -> <<FENCE, NL>> \o payload \o <<NL, FENCE>>

\* The text of an answer: the payload, fenced or not, with prose around it;
\* the prose of "braces" holds a pair of braces.
ResponseOf(reply) ==
  LET body == Fenced(reply.payload, reply.fence)
  IN CASE reply.around = "none" -> body
       [] reply.around = "before" ->
            <<TEXT(<<"Here is the analysis:">>), NL>> \o body
       [] reply.around = "after" ->
            body \o <<NL, TEXT(<<"Let me know.">>)>>
       [] reply.around = "braces" ->
            body \o <<NL, TEXT(<<"See ">>), LBRACE, TEXT(<<"notes">>), RBRACE>>

Replies ==
  [payload : Payloads, fence : {"none", "json", "plain"}, around : Arounds]

\* An answer of GenerateContent: err, or the candidates, each with or without
\* a Content and with the texts of its parts.
ErrorAnswer == [err |-> TRUE, candidates |-> <<>>]
Answer(candidates) == [err |-> FALSE, candidates |-> candidates]
Candidate(parts) == [content |-> TRUE, parts |-> parts]
NoContent == [content |-> FALSE, parts |-> <<>>]

\* The replies that come in two parts.
SplitReplies ==
  {r \in Replies : /\ r.payload = Object(<<Member("undocumented_changes",
                                                 Array(<<FindingPool[1]>>,
                                                       FALSE))>>, FALSE)
                   /\ r.around = "none"}

\* What the model may answer: the answer and, when it carries text, the reply
\* (payload, fence, prose) the text was made of.
ModelAnswers ==
  {[resp |-> a, reply |-> <<>>] :
     a \in {ErrorAnswer, Answer(<<>>), Answer(<<NoContent>>),
            Answer(<<Candidate(<<>>)>>)}}
  \cup {[resp |-> Answer(<<Candidate(<<ResponseOf(r)>>)>>), reply |-> <<r>>] :
          r \in Replies}
  \cup {[resp |-> Answer(<<Candidate(<<Slice(ResponseOf(r), 1, k),
                                       Slice(ResponseOf(r), k + 1,
                                             Len(ResponseOf(r)))>>)>>),
         reply |-> <<r>>] : r \in SplitReplies, k \in {3, 5}}

\* ----------------------------------------------------------- analysis data

Data(diff) ==
  [Source |-> Str("https://example.org/repo.git", 28),
   Diff |-> diff,
   CommitMessages |-> Str("git log", 40),
   Changelog |-> Str("No CHANGELOG found.", 19),
   VersionA |-> Str("v0", 2),
   VersionB |-> Str("v1", 2),
   ProgramName |-> Str("ucd", 3),
   ProgramDesc |-> EmptyStr]

\* The bytes left for the diff in a prompt of iteration v.
Room(v) == maxPromptLength(v) - TextLen(Render(Data(EmptyStr), v))

\* The evidence a run may be given: a diff that is empty, short, one that
\* fills the prompt to the limit exactly, one byte more, and far too long.
DataSet(v) ==
  {Data(Str("git diff", n)) :
     n \in {0, 512, Room(v), Room(v) + 1, 2 * maxPromptLength(v)}}

\* ------------------------------------------------------------ the analysis

VARIABLES
  variant,       \* the iteration of the analysis code that runs
  data,          \* the *AnalysisData the analysis is given
  pc,            \* where the analysis is: "start", "call", "reply", "done"
  prompt,        \* the prompt buildPrompt returned
  sent,          \* the prompts passed to GenerateContent, in order
  resp,          \* the answer of GenerateContent
  reply,         \* <<the reply the answer's text was made of>>, or <<>>
  responseText,  \* the text handed to the parser
  parsed,        \* <<what the parser gave>>, or <<>> when it did not run
  ret            \* what the analysis returned: [res, err, panic]

avars == <<variant, data, pc, prompt, sent, resp, reply, responseText,
           parsed, ret>>

NoReturn == [res |-> <<>>, err |-> NoError, panic |-> FALSE]
Return(res, err) == [res |-> res, err |-> err, panic |-> FALSE]
Panic == [res |-> <<>>, err |-> NoError, panic |-> TRUE]

InitAnalysis ==
  /\ variant \in AnalyzeVariants
  /\ data \in DataSet(variant)
  /\ pc = "start"
  /\ prompt = <<>>
  /\ sent = <<>>
  /\ resp = ErrorAnswer
  /\ reply = <<>>
  /\ responseText = <<>>
  /\ parsed = <<>>
  /\ ret = NoReturn

\* AnalyzeChanges / Analyzer.Analyze up to the call of the model: the prompt
\* is built; an error of buildPrompt ends the analysis.
BuildPrompt ==
  /\ pc = "start"
  /\ LET b == buildPrompt(data, variant)
     IN IF b.err # NoError
        THEN /\ ret' = Return(<<>>, Wrap("build prompt", b.err))
             /\ pc' = "done"
             /\ UNCHANGED prompt
        ELSE /\ prompt' = b.prompt
             /\ pc' = "call"
             /\ UNCHANGED ret
  /\ UNCHANGED <<variant, data, sent, resp, reply, responseText, parsed>>

\* A model call that is made again when the model returned an error.
GenerateContentRetry ==
  /\ pc = "call"
  /\ sent' = Append(sent, prompt)
  /\ \E a \in ModelAnswers :
       /\ resp' = a.resp
       /\ reply' = a.reply
       /\ pc' = IF a.resp.err /\ Len(sent) < 2 THEN "call" ELSE "reply"
  /\ UNCHANGED <<variant, data, prompt, responseText, parsed, ret>>

\* client.Models.GenerateContent / model.GenerateContent: the prompt goes
\* out and the model answers.
GenerateContent ==
  /\ pc = "call"
  /\ sent' = Append(sent, prompt)
  /\ \E a \in ModelAnswers : resp' = a.resp /\ reply' = a.reply
  /\ pc' = "reply"
  /\ UNCHANGED <<variant, data, prompt, responseText, parsed, ret>>

\* The texts of the parts, in order, the empty ones left out
\* (analyze.go lines 68-75).
RECURSIVE ConcatParts(_)
ConcatParts(parts) ==
  IF parts = <<>> THEN <<>> ELSE Head(parts) \o ConcatParts(Tail(parts))

\* AnalyzeChanges of analyze.go lines 58-82, after the model's answer.
FinishAnalyze ==
  /\ variant = "analyze"
  /\ IF resp.err
     THEN /\ ret' = Return(<<>>, Wrap("generate content",
                                      Error("model", "", <<>>)))
          /\ UNCHANGED <<responseText, parsed>>
     ELSE IF \/ resp.candidates = <<>>
             \/ ~resp.candidates[1].content
             \/ resp.candidates[1].parts = <<>>
     THEN /\ ret' = Return(<<>>, Error("no response or valid parts from AI model",
                                       "", <<>>))
          /\ UNCHANGED <<responseText, parsed>>
     ELSE /\ responseText' = ConcatParts(resp.candidates[1].parts)
          /\ parsed' = <<parseAIResponse(responseText')>>
          /\ ret' = IF parsed'[1].err # NoError
                    THEN Return(<<>>, Wrap("parse failure", parsed'[1].err))
                    ELSE Return(<<[parsed'[1].res[1] EXCEPT
                                     !.input = <<data>>]>>, NoError)

\* AnalyzeChanges of analyze.go lines 256-267 and of part_003, and
\* Analyzer.Analyze of part_006, after the model's answer: a candidate
\* without Content is dereferenced, the first part alone is parsed, and what
\* the parser returns is returned as it is.
FinishEarlier ==
  /\ variant \in {"analyze_old", "part_003", "part_006"}
  /\ IF resp.err
     THEN /\ ret' = Return(<<>>, Wrap("generate content",
                                      Error("model", "", <<>>)))
          /\ UNCHANGED <<responseText, parsed>>
     ELSE IF resp.candidates = <<>>
     THEN /\ ret' = Return(<<>>, Error("no response from AI model", "", <<>>))
          /\ UNCHANGED <<responseText, parsed>>
     ELSE IF ~resp.candidates[1].content
     THEN /\ ret' = Panic
          /\ UNCHANGED <<responseText, parsed>>
     ELSE IF resp.candidates[1].parts = <<>>
     THEN /\ ret' = Return(<<>>, Error("no response from AI model", "", <<>>))
          /\ UNCHANGED <<responseText, parsed>>
     ELSE /\ responseText' = resp.candidates[1].parts[1]
          /\ parsed' = <<Parse(responseText', variant)>>
          /\ ret' = Return(parsed'[1].res, parsed'[1].err)

\* The analysis from the model's answer to its return.
Finish ==
  /\ pc = "reply"
  /\ FinishAnalyze \/ FinishEarlier
  /\ pc' = "done"
  /\ UNCHANGED <<variant, data, prompt, sent, resp, reply>>

\* ---------------------------------------------------------- the changelog

\* A changelog snapshot is a sequence of lines, a line a sequence of
\* fragments; a '+' that starts a line is a fragment of its own.
Line(text) == <<text>>
Snapshots ==
  {<<Line("# Changelog")>>,
   <<Line("# Changelog"), Line("- fixed bug X")>>,
   <<Line("# Changelog"), <<"+", "+", " more">>>>,
   <<Line("# Changelog"), <<>>>>,
   <<>>}

\* The length of a longest common subsequence of the line sequences a, b.
RECURSIVE LCSLen(_, _)
LCSLen(a, b) ==
  IF a = <<>> \/ b = <<>> THEN 0
  ELSE IF Head(a) = Head(b) THEN 1 + LCSLen(Tail(a), Tail(b))
  ELSE LET x == LCSLen(Tail(a), b)
           y == LCSLen(a, Tail(b))
       IN IF x >= y THEN x ELSE y

\* The body of a unified diff of a and b: each line of either with its
\* marker in front (" " kept, "-" only in a, "+" only in b), every line
\* within the context of a change.
RECURSIVE EditScript(_, _)
EditScript(a, b) ==
  IF a = <<>> /\ b = <<>> THEN <<>>
  ELSE IF a = <<>> THEN <<<<"+">> \o Head(b)>> \o EditScript(a, Tail(b))
  ELSE IF b = <<>> THEN <<<<"-">> \o Head(a)>> \o EditScript(Tail(a), b)
  ELSE IF Head(a) = Head(b)
  THEN <<<<" ">> \o Head(a)>> \o EditScript(Tail(a), Tail(b))
  ELSE IF LCSLen(Tail(a), b) >= LCSLen(a, Tail(b))
  THEN <<<<"-">> \o Head(a)>> \o EditScript(Tail(a), b)
  ELSE <<<<"+">> \o Head(b)>> \o EditScript(a, Tail(b))

\* The output of diff -u --label la --label lb on two files holding a and b:
\* nothing when they are equal, else the two header lines, a hunk header and
\* the body.
UnifiedDiff(a, b, la, lb) ==
  IF a = b THEN <<>>
  ELSE <<<<"-", "-", "-", " ", la>>, <<"+", "+", "+", " ", lb>>, <<"@@">>>>
       \o EditScript(a, b)

\* strings.HasPrefix(line, "+") and strings.HasPrefix(line, "+++").
HasPlus(line) == Len(line) >= 1 /\ line[1] = "+"
HasThreePlus(line) ==
  Len(line) >= 3 /\ line[1] = "+" /\ line[2] = "+" /\ line[3] = "+"

\* The loop of getChangelogFromGit in part_001 (lines 199-207): the lines
\* that start with "+" and not with "+++", without their first character.
RECURSIVE AddedLines(_)
AddedLines(out) ==
  IF out = <<>> THEN <<>>
  ELSE (IF HasPlus(Head(out)) /\ ~HasThreePlus(Head(out))
        THEN <<Tail(Head(out))>> ELSE <<>>) \o AddedLines(Tail(out))

\* The changelog text getChangelogFromGit returns once both snapshots are
\* read.  changes.go and main.go hand diff the name "-" twice, so that diff
\* compares its standard input with itself and prints nothing; part_001
\* compares two temporary files and keeps the added lines.
ChangelogDelta(cv, a, b, la, lb) ==
  IF cv = "part_001" THEN AddedLines(UnifiedDiff(a, b, la, lb))
  ELSE UnifiedDiff(a \o <<<<>>>> \o b, a \o <<<<>>>> \o b, la, lb)

IsNoLine(t) == t = <<>>

\* changelog == "": no line, or one line that is empty.
IsEmptyText(t) == t = <<>> \/ t = <<<<>>>>

NoChangelogFound == <<Line("No CHANGELOG found.")>>

\* ---------------------------------------------------------- the collector

\* The iterations of the collecting code: the Collector of changes.go, the
\* Collect(cfg) of main.go lines 300-525, the Collect(cfg) of part_001, and
\* ("main") the collectFromFiles of the command of main.go lines 116-151,
\* whose diffFile, commitsFile and changesFile are the configuration's
\* diffPath, commitMsgs and changelogPath.
CollectVariants == {"collector", "config", "part_001", "main"}

ErrMissingVersion == Error("version identifiers are required", "", <<>>)
ErrDiffNotFound == Error("diff file not found", "", <<>>)
ErrGitNotFound == Error("git command not found", "", <<>>)
ErrNoChangelog == Error("no changelog file found", "", <<>>)

NoChangelogProvided == <<Line("No CHANGELOG provided.")>>
FailedToReadChangelog(cv) ==
  IF cv = "collector" THEN <<Line("Failed to read CHANGELOG.")>>
  ELSE <<<<"Failed to read CHANGELOG: ", "read error">>>>

\* What a Collector or a Config is constructed with.
Configs ==
  [repoURL : {"", "https://example.com/repo.git"},
   versionA : {"", "v1.0"},
   versionB : {"", "v2.0"},
   diffPath : {"", "changes.diff"},
   changelogPath : {"", "CHANGELOG.md"},
   commitMsgs : {"", "fix parser"}]

\* What git diff and git log print.
DiffOutputs == {EmptyStr, Str("git diff", 120)}
LogOutputs == {EmptyStr, Str("git log", 40)}

defaultVersionGiven(cv, given, default) == given

defaultVersionAlways(cv, given, default) ==
  IF given = "" THEN default ELSE given

\* The version a run works with: the Config iterations replace an empty one.
defaultVersion(cv, given, default) ==
  IF cv # "collector" /\ given = "" THEN default ELSE given

VARIABLES
  cvariant,   \* the iteration of the collecting code that runs
  cfg,        \* the configuration of the run
  cpc,        \* where Collect is: "idle", a step's name, or "returned"
  dirs,       \* the temporary directories that exist
  made,       \* how many temporary directories were created
  tempDir,    \* the directory of this run's clone, 0 before it is made
  cleanup,    \* the directory the registered cleanup removes, 0 for none
  acc,        \* the locals of Collect and of the functions it calls
  cret,       \* what Collect returned: [data, err]
  removed,    \* the directories os.RemoveAll removed, in order
  ran         \* the outside operations Collect ran, in order: <<name, ok>>

cvars == <<cvariant, cfg, cpc, dirs, made, tempDir, cleanup, acc, cret,
           removed, ran>>

NoLocals ==
  [versionA |-> "", versionB |-> "", diff |-> EmptyStr,
   commitMsgs |-> EmptyStr, found |-> FALSE, contentA |-> <<>>,
   contentB |-> <<>>, changelog |-> <<>>, changelogErr |-> NoError]

InitCollect ==
  /\ cvariant \in CollectVariants
  /\ cfg \in Configs
  /\ cvariant = "main" => cfg.repoURL = ""
  /\ cpc = "idle"
  /\ dirs = {}
  /\ made = 0
  /\ tempDir = 0
  /\ cleanup = 0
  /\ acc = NoLocals
  /\ cret = [data |-> <<>>, err |-> NoError]
  /\ removed = <<>>
  /\ ran = <<>>

\* A Cleanup that removes the directory and keeps the cleanup function.
RunCleanupKeep ==
  /\ dirs' = dirs \ {cleanup}
  /\ removed' = IF cleanup # 0 THEN Append(removed, cleanup) ELSE removed
  /\ cleanup' = cleanup

\* Collector.Cleanup, and the deferred os.RemoveAll(tempDir) of main.go line
\* 402: the registered directory is removed and the registration dropped.
\* part_001 registers nothing (its line 110 is a comment).
RunCleanup ==
  /\ dirs' = dirs \ {cleanup}
  /\ removed' = IF cleanup \in dirs THEN Append(removed, cleanup) ELSE removed
  /\ cleanup' = 0

\* Collect returns: the deferred calls run.
ReturnCollect(d, e) ==
  /\ cret' = [data |-> d, err |-> e]
  /\ cpc' = "returned"
  /\ RunCleanup

\* Collect ran the outside operation op (a command, a file system call),
\* which succeeded or failed.
Ran(op, ok) == ran' = Append(ran, <<op, ok>>)

\* The step of Collect goes on to the step next.
GoOn(next) ==
  /\ cpc' = next
  /\ UNCHANGED <<dirs, removed, cleanup, cret>>

\* The *AnalysisData Collect builds from its locals.
AnalysisDataOf(cv, c, l) ==
  IF cv \in {"part_001", "main"}
  THEN [Diff |-> l.diff, CommitMessages |-> l.commitMsgs,
        Changelog |-> l.changelog, VersionA |-> l.versionA,
        VersionB |-> l.versionB,
        Source |-> IF cv = "main" THEN c.diffPath ELSE c.repoURL]
  ELSE [Diff |-> l.diff, CommitMessages |-> l.commitMsgs,
        Changelog |-> l.changelog, VersionA |-> l.versionA,
        VersionB |-> l.versionB]

\* Collect up to the choice of the mode.
CollectStart ==
  /\ cpc = "idle"
  /\ LET va == defaultVersion(cvariant, cfg.versionA, "v0")
         vb == defaultVersion(cvariant, cfg.versionB, "v1")
     IN IF va = "" \/ vb = ""
        THEN /\ ReturnCollect(<<>>, ErrMissingVersion)
             /\ UNCHANGED acc
        ELSE /\ acc' = [acc EXCEPT !.versionA = va, !.versionB = vb]
             /\ GoOn(IF cfg.repoURL # "" THEN "lookpath" ELSE "readdiff")
  /\ UNCHANGED <<cvariant, cfg, made, tempDir, ran>>

\* exec.LookPath("git").
LookPath ==
  /\ cpc = "lookpath"
  /\ \E ok \in BOOLEAN :
       /\ Ran("lookpath", ok)
       /\ IF ok THEN GoOn("mkdir")
          ELSE ReturnCollect(<<>>,
              IF cvariant = "collector"
              THEN [ErrGitNotFound EXCEPT !.cause = "exec"]
              ELSE Error("git command not found: %v", "exec", <<>>))
  /\ UNCHANGED <<cvariant, cfg, made, tempDir, acc>>

\* os.MkdirTemp, and the registration of the directory's removal.
MkdirTemp ==
  /\ cpc = "mkdir"
  /\ \E ok \in BOOLEAN :
       /\ Ran("mkdir", ok)
       /\ IF ok
          THEN /\ made' = made + 1
               /\ tempDir' = made + 1
               /\ dirs' = dirs \cup {made + 1}
               /\ cleanup' = IF cvariant = "part_001" THEN 0 ELSE made + 1
               /\ cpc' = "clone"
               /\ UNCHANGED <<removed, cret>>
          ELSE /\ ReturnCollect(<<>>, Wrap("failed to create temp directory",
                                           Error("os", "", <<>>)))
               /\ UNCHANGED <<made, tempDir>>
  /\ UNCHANGED <<cvariant, cfg, acc>>

\* A clone step that goes on to git diff whether or not git clone failed.
CloneUnchecked ==
  /\ cpc = "clone"
  /\ \E ok \in BOOLEAN : Ran("clone", ok) /\ GoOn("diff")
  /\ UNCHANGED <<cvariant, cfg, made, tempDir, acc>>

\* git clone --quiet.
Clone ==
  /\ cpc = "clone"
  /\ \E ok \in BOOLEAN :
       /\ Ran("clone", ok)
       /\ IF ok THEN GoOn("diff")
          ELSE ReturnCollect(<<>>, Error("git clone failed", "exec", <<>>))
  /\ UNCHANGED <<cvariant, cfg, made, tempDir, acc>>

\* The error of a git command that failed: runCommand's in the Config
\* iterations, the caller's wrapping in the Collector.
CommandError(cv, what) ==
  IF cv = "collector" THEN Wrap(what, Error("exit status", "exec", <<>>))
  ELSE Error("git command failed", "exec", <<>>)

\* git diff versionA versionB.
GitDiff ==
  /\ cpc = "diff"
  /\ \/ \E out \in DiffOutputs :
          /\ acc' = [acc EXCEPT !.diff = out]
          /\ Ran("diff", TRUE)
          /\ GoOn("log")
     \/ /\ Ran("diff", FALSE)
        /\ ReturnCollect(<<>>, CommandError(cvariant, "git diff failed"))
        /\ UNCHANGED acc
  /\ UNCHANGED <<cvariant, cfg, made, tempDir>>

\* git log --pretty=format:%s versionA..versionB.
GitLog ==
  /\ cpc = "log"
  /\ \/ \E out \in LogOutputs :
          /\ acc' = [acc EXCEPT !.commitMsgs = out]
          /\ Ran("log", TRUE)
          /\ GoOn("glob")
     \/ /\ Ran("log", FALSE)
        /\ ReturnCollect(<<>>, CommandError(cvariant, "git log failed"))
        /\ UNCHANGED acc
  /\ UNCHANGED <<cvariant, cfg, made, tempDir>>

\* A collectFromGit that hands on the changelog as getChangelogFromGit
\* returned it.
changelogKept(changelog) == changelog

\* The end of collectFromGit: an empty changelog becomes the sentinel.
changelogOrSentinel(changelog) ==
  IF IsEmptyText(changelog) THEN NoChangelogFound ELSE changelog

\* getChangelogFromGit returns (text, err); collectFromGit drops the error,
\* puts the sentinel for an empty text, and Collect returns the data.
ReturnChangelog(text, err) ==
  LET l == [acc EXCEPT !.changelog = changelogOrSentinel(text),
                       !.changelogErr = err]
  IN /\ acc' = l
     /\ ReturnCollect(<<AnalysisDataOf(cvariant, cfg, l)>>, NoError)

\* The search of the clone for a changelog file (filepath.Glob).
FindChangelog ==
  /\ cpc = "glob"
  /\ \E found \in BOOLEAN :
       /\ Ran("glob", found)
       /\ IF found
          THEN /\ acc' = [acc EXCEPT !.found = TRUE]
               /\ GoOn("showA")
          ELSE ReturnChangelog(<<>>, ErrNoChangelog)
  /\ UNCHANGED <<cvariant, cfg, made, tempDir>>

\* git show versionA:relPath.
ShowA ==
  /\ cpc = "showA"
  /\ \/ \E content \in Snapshots :
          /\ acc' = [acc EXCEPT !.contentA = content]
          /\ Ran("showA", TRUE)
          /\ GoOn("showB")
     \/ Ran("showA", FALSE) /\ ReturnChangelog(<<>>, Wrap("failed to get changelog at version A",
                                   Error("git command failed", "exec", <<>>)))
  /\ UNCHANGED <<cvariant, cfg, made, tempDir>>

\* git show versionB:relPath.
ShowB ==
  /\ cpc = "showB"
  /\ \/ \E content \in Snapshots :
          /\ acc' = [acc EXCEPT !.contentB = content]
          /\ Ran("showB", TRUE)
          /\ GoOn(IF cvariant = "part_001" THEN "tempfiles" ELSE "difftool")
     \/ Ran("showB", FALSE) /\ ReturnChangelog(<<>>, Wrap("failed to get changelog at version B",
                                   Error("git command failed", "exec", <<>>)))
  /\ UNCHANGED <<cvariant, cfg, made, tempDir>>

\* part_001 lines 167-187: the two snapshots are written to temporary files,
\* which the function's deferred os.Remove calls delete.
TempFiles ==
  /\ cpc = "tempfiles"
  /\ \E ok \in BOOLEAN :
       /\ Ran("tempfiles", ok)
       /\ IF ok
          THEN /\ GoOn("difftool")
               /\ UNCHANGED acc
          ELSE ReturnChangelog(<<>>, Wrap("failed to create temp file",
                                          Error("os", "", <<>>)))
  /\ UNCHANGED <<cvariant, cfg, made, tempDir>>

\* The diff of the two snapshots, and the return of Collect with it.
DiffChangelog ==
  /\ cpc = "difftool"
  /\ Ran("difftool", TRUE)
  /\ ReturnChangelog(ChangelogDelta(cvariant, acc.contentA, acc.contentB,
                                    acc.versionA, acc.versionB), NoError)
  /\ UNCHANGED <<cvariant, cfg, made, tempDir>>

\* The error of a file that could not be read.
ReadError(cv, what) ==
  Wrap(IF cv = "main" THEN "readfile" ELSE what, Error("os", "", <<>>))

\* collectFromFiles up to the diff file.  The command of main.go reads the
\* file whatever its path, and the empty path cannot be read.
ReadDiff ==
  /\ cpc = "readdiff"
  /\ IF cfg.diffPath = "" /\ cvariant # "main"
     THEN /\ ReturnCollect(<<>>, IF cvariant = "collector" THEN ErrDiffNotFound
                                 ELSE Error("diff file path not provided",
                                            "", <<>>))
          /\ UNCHANGED <<acc, ran>>
     ELSE \E ok \in IF cfg.diffPath = "" THEN {FALSE} ELSE BOOLEAN :
            /\ Ran("readdiff", ok)
            /\ IF ok
               THEN /\ acc' = [acc EXCEPT
                                 !.diff = Str("changes.diff", 300),
                                 !.commitMsgs =
                                    IF cvariant = "main" THEN EmptyStr
                                    ELSE Str(cfg.commitMsgs,
                                     IF cfg.commitMsgs = "" THEN 0 ELSE 10)]
                    /\ GoOn(IF cvariant = "main" /\ cfg.commitMsgs # ""
                            THEN "readcommits" ELSE "readchangelog")
               ELSE /\ ReturnCollect(<<>>, ReadError(cvariant,
                                                     "failed to read diff file"))
                    /\ UNCHANGED acc
  /\ UNCHANGED <<cvariant, cfg, made, tempDir>>

\* collectFromFiles of main.go lines 125-131: the file of commit messages.
ReadCommits ==
  /\ cpc = "readcommits"
  /\ \E ok \in BOOLEAN :
       /\ Ran("readcommits", ok)
       /\ IF ok
          THEN /\ acc' = [acc EXCEPT !.commitMsgs = Str(cfg.commitMsgs, 40)]
               /\ GoOn("readchangelog")
          ELSE /\ ReturnCollect(<<>>, ReadError(cvariant, ""))
               /\ UNCHANGED acc
  /\ UNCHANGED <<cvariant, cfg, made, tempDir>>

\* collectFromFiles from the changelog file to the return of Collect.
ReadChangelog ==
  /\ cpc = "readchangelog"
  /\ \E ok \in BOOLEAN :
       LET text == IF cfg.changelogPath = ""
                   THEN (IF cvariant = "main" THEN <<>>
                         ELSE NoChangelogProvided)
                   ELSE IF ok THEN <<Line("# Changelog"),
                                      Line("- fixed bug X")>>
                   ELSE FailedToReadChangelog(cvariant)
           l == [acc EXCEPT !.changelog = text]
       IN /\ IF cfg.changelogPath = "" THEN UNCHANGED ran
             ELSE Ran("readchangelog", ok)
          /\ IF cvariant = "main" /\ cfg.changelogPath # "" /\ ~ok
             THEN /\ ReturnCollect(<<>>, ReadError(cvariant, ""))
                  /\ UNCHANGED acc
             ELSE /\ acc' = l
                  /\ ReturnCollect(<<AnalysisDataOf(cvariant, cfg, l)>>,
                                   NoError)
  /\ UNCHANGED <<cvariant, cfg, made, tempDir>>

\* Collector.Cleanup called by the owner of the Collector, before or after
\* Collect.
Cleanup ==
  /\ cvariant = "collector"
  /\ cpc \in {"idle", "returned"}
  /\ RunCleanup
  /\ UNCHANGED <<cvariant, cfg, cpc, made, tempDir, acc, cret, ran>>

\* ----------------------------------------------------------------- the report

VARIABLES
  rvariant,   \* the iteration of the presenting code: Result.Format of
              \* part_005 ("part_005") or outputText of main.go ("main")
  items,      \* part_005: the findings as decoded, before their conversion
  rpc,        \* "off", "decoded", "result", "sorted", "shown"
  changes,    \* r.Changes / r.UndocumentedChanges of the Result presented
  shown       \* what was written: the head and, per finding, its lines

rvars == <<rvariant, items, rpc, changes, shown>>

\* parseResponse of part_006, from the decoded findings to the Result.
Convert ==
  /\ rpc = "decoded"
  /\ changes' = ConvertChanges(items, 1)
  /\ rpc' = "result"
  /\ UNCHANGED <<rvariant, items, shown>>

\* sort.Slice(s, less) with the less function of SortByRating: some
\* permutation of s that less puts in order; the sort is not guaranteed to be
\* stable, so which one is not determined.
SortSlice(s) ==
  LET n == Len(s)
      perms == {f \in [1..n -> 1..n] : \A i, j \in 1..n : f[i] = f[j] => i = j}
  IN {p \in {[k \in 1..n |-> s[f[k]]] : f \in perms} :
        \A k \in 1..(n - 1) : ~(p[k + 1].i["rating"] > p[k].i["rating"])}

\* Result.SortByRating, on the receiver's Changes.
SortByRating ==
  /\ rvariant = "part_005"
  /\ rpc = "result"
  /\ changes' \in SortSlice(changes)
  /\ rpc' = "sorted"
  /\ UNCHANGED <<rvariant, items, shown>>

FormatInPlace ==
  /\ rvariant = "part_005"
  /\ rpc \in {"result", "sorted"}
  /\ IF changes = <<>>
     THEN /\ shown' = [head |-> <<"No undocumented changes found.">>,
                       lines |-> <<>>]
          /\ UNCHANGED changes
     ELSE /\ changes' \in SortSlice(changes)
          /\ shown' =
               [head |-> <<"Found %d undocumented changes:", Len(changes)>>,
                lines |->
                  [k \in 1..Len(changes) |->
                     [of |-> changes'[k],
                      text |-> <<RatingString(changes'[k].i["rating"]), " ">>
                                 \o changes'[k].s["description"]]]]
  /\ rpc' = "shown"
  /\ UNCHANGED <<rvariant, items>>

\* Result.Format: the changes are copied, and the copy is sorted and written,
\* a line of glyph and description for each.
Format ==
  /\ rvariant = "part_005"
  /\ rpc \in {"result", "sorted"}
  /\ IF changes = <<>>
     THEN shown' = [head |-> <<"No undocumented changes found.">>,
                    lines |-> <<>>]
     ELSE \E result \in SortSlice(changes) :
            shown' =
              [head |-> <<"Found %d undocumented changes:", Len(result)>>,
               lines |->
                 [k \in 1..Len(result) |->
                    [of |-> result[k],
                     text |-> <<RatingString(result[k].i["rating"]), " ">>
                                \o result[k].s["description"]]]]
  /\ rpc' = "shown"
  /\ UNCHANGED <<rvariant, items, changes>>

\* riskLevel of outputText: the icon, the level and the word.
riskLevel(level) ==
  <<IF level > 6 THEN "U+203C U+FE0F" ELSE IF level > 2 THEN "U+26A0 U+FE0F"
    ELSE "U+2713",
    level,
    IF level <= 2 THEN "Low" ELSE IF level <= 6 THEN "Medium" ELSE "High">>

\* outputText of main.go, from "Changes" on: each finding in the order of
\* r.UndocumentedChanges, with the risks above 3.  (The header and the summary
\* it writes before are left out.)
outputText ==
  /\ rvariant = "main"
  /\ rpc = "result"
  /\ shown' =
       IF changes = <<>>
       THEN [head |-> <<"No undocumented changes detected.">>, lines |-> <<>>]
       ELSE [head |-> <<"Undocumented Changes (%d)", Len(changes)>>,
             lines |->
               [k \in 1..Len(changes) |->
                  [of |-> changes[k],
                   text |->
                     <<k, ". ">> \o changes[k].s["description"]
                       \o (IF changes[k].i["malware_risk"] > 3
                           THEN <<"Malicious Code Risk: ">>
                                  \o riskLevel(changes[k].i["malware_risk"])
                                  \o changes[k].s["malware_explanation"]
                           ELSE <<>>)
                       \o (IF changes[k].i["silent_patch"] > 3
                           THEN <<"Silent Security Patch Risk: ">>
                                  \o riskLevel(changes[k].i["silent_patch"])
                                  \o changes[k].s["silent_explanation"]
                           ELSE <<>>)]]]
  /\ rpc' = "shown"
  /\ UNCHANGED <<rvariant, items, changes>>

\* ---------------------------------------------------------- specifications

vars == <<avars, cvars, rvars>>

\* No Result is presented.
ReportIdle ==
  /\ rvariant = "part_005"
  /\ items = <<>>
  /\ rpc = "off"
  /\ changes = <<>>
  /\ shown = [head |-> <<>>, lines |-> <<>>]

\* No analysis runs.
AnalysisIdle ==
  /\ variant = "analyze"
  /\ data = Data(EmptyStr)
  /\ pc = "idle"
  /\ prompt = <<>>
  /\ sent = <<>>
  /\ resp = ErrorAnswer
  /\ reply = <<>>
  /\ responseText = <<>>
  /\ parsed = <<>>
  /\ ret = NoReturn

\* No collection runs.
CollectIdle ==
  /\ cvariant = "collector"
  /\ cfg \in {c \in Configs : \A f \in DOMAIN c : c[f] = ""}
  /\ cpc = "off"
  /\ dirs = {}
  /\ made = 0
  /\ tempDir = 0
  /\ cleanup = 0
  /\ acc = NoLocals
  /\ cret = [data |-> <<>>, err |-> NoError]
  /\ removed = <<>>
  /\ ran = <<>>

\* The analysis of one *AnalysisData by each iteration of the analysis code.
Init == InitAnalysis /\ CollectIdle /\ ReportIdle
Next ==
  \/ BuildPrompt /\ UNCHANGED <<cvars, rvars>>
  \/ GenerateContent /\ UNCHANGED <<cvars, rvars>>
  \/ Finish /\ UNCHANGED <<cvars, rvars>>
Spec == Init /\ [][Next]_vars

\* One run of Collect by each iteration of the collecting code.
InitC == InitCollect /\ AnalysisIdle /\ ReportIdle
NextC ==
  \/ CollectStart /\ UNCHANGED <<avars, rvars>>
  \/ LookPath /\ UNCHANGED <<avars, rvars>>
  \/ MkdirTemp /\ UNCHANGED <<avars, rvars>>
  \/ Clone /\ UNCHANGED <<avars, rvars>>
  \/ GitDiff /\ UNCHANGED <<avars, rvars>>
  \/ GitLog /\ UNCHANGED <<avars, rvars>>
  \/ FindChangelog /\ UNCHANGED <<avars, rvars>>
  \/ ShowA /\ UNCHANGED <<avars, rvars>>
  \/ ShowB /\ UNCHANGED <<avars, rvars>>
  \/ TempFiles /\ UNCHANGED <<avars, rvars>>
  \/ DiffChangelog /\ UNCHANGED <<avars, rvars>>
  \/ ReadDiff /\ UNCHANGED <<avars, rvars>>
  \/ ReadCommits /\ UNCHANGED <<avars, rvars>>
  \/ ReadChangelog /\ UNCHANGED <<avars, rvars>>
  \/ Cleanup /\ UNCHANGED <<avars, rvars>>
SpecCollect == InitC /\ [][NextC]_vars

\* The presentation of one Result by each iteration of the presenting code.
\* part_005 is given up to MaxFindings findings as json decodes them for
\* parseResponse, each with a rating label in some letter case or with a label
\* that is no rating; main is given up to MaxFindings findings of analyze.go's
\* Result, each with its two risk scores.
InitR ==
  /\ rvariant \in {"part_005", "main"}
  /\ IF rvariant = "part_005"
     THEN /\ \E n \in 0..MaxFindings :
               items \in
                 [1..n ->
                    {[s |-> [description |-> <<d>>, rating |-> <<l>>,
                             explanation |-> <<>>],
                      i |-> << >>] :
                       d \in {"adds backdoor"},
                       l \in {"benign", "Benign", "BENIGN", "bEnIgN",
                              "silent security fix", "Silent Security Fix",
                              "SILENT SECURITY FIX", "sIlEnT sEcUrItY fIx",
                              "suspicious", "Suspicious", "SUSPICIOUS",
                              "sUsPiCiOuS",
                              "possibly malicious", "Possibly Malicious",
                              "POSSIBLY MALICIOUS", "pOsSiBlY mAlIcIoUs",
                              "definitely malicious", "Definitely Malicious",
                              "DEFINITELY MALICIOUS", "dEfInItElY mAlIcIoUs",
                              "Weird"}}
                    \cup
                    {[s |-> [description |-> <<d>>, rating |-> <<l>>,
                             explanation |-> <<>>],
                      i |-> << >>] :
                       d \in {"opens socket"},
                       l \in {"benign", "Suspicious"}}]
          /\ changes = <<>>
          /\ rpc = "decoded"
     ELSE /\ items = <<>>
          /\ \E n \in 0..MaxFindings :
               changes \in
                 [1..n ->
                    {[s |-> [description |-> <<c[1]>>,
                             malware_explanation |-> <<"why">>,
                             silent_explanation |-> <<"why">>],
                      i |-> [malware_risk |-> c[2], silent_patch |-> c[3]]] :
                       c \in {<<"adds backdoor", 9, 2>>,
                              <<"opens socket", 1, 0>>,
                              <<"fixes overflow", 0, 4>>,
                              <<"drops check", 4, 4>>,
                              <<"adds telemetry", 3, 3>>}}]
          /\ rpc = "result"
  /\ shown = [head |-> <<>>, lines |-> <<>>]
  /\ AnalysisIdle
  /\ CollectIdle
NextR ==
  \/ Convert /\ UNCHANGED <<avars, cvars>>
  \/ SortByRating /\ UNCHANGED <<avars, cvars>>
  \/ Format /\ UNCHANGED <<avars, cvars>>
  \/ outputText /\ UNCHANGED <<avars, cvars>>
SpecReport == InitR /\ [][NextR]_vars

\* ------------------------------------------------------------ the whole run

\* The temporary directories one Collector is let create.
MaxDirs == 2

\* Collect is called again on the Collector whose last Collect has returned:
\* its locals, its result and the operations it ran are those of the new call.
CollectAgain ==
  /\ cvariant = "collector"
  /\ cpc = "returned"
  /\ pc = "idle"
  /\ made < MaxDirs
  /\ cpc' = "idle"
  /\ acc' = NoLocals
  /\ cret' = [data |-> <<>>, err |-> NoError]
  /\ ran' = <<>>
  /\ UNCHANGED <<cvariant, cfg, dirs, made, tempDir, cleanup, removed>>

\* Service.AnalyzeGit and main's analyzeData hand the *AnalysisData that
\* Collect returned without error to the analysis; Collect's locals are gone.
Analyze ==
  /\ cpc = "returned"
  /\ cret.err = NoError
  /\ pc = "idle"
  /\ LET d == cret.data[1]
     IN data' = [Source |-> IF cvariant = "main" THEN Str(d.Source, 12)
                            ELSE EmptyStr,
                 Diff |-> d.Diff,
                 CommitMessages |-> d.CommitMessages,
                 Changelog |-> IF d.Changelog = <<>> THEN EmptyStr
                               ELSE Str(d.Changelog[1][1], 19),
                 VersionA |-> Str(d.VersionA, 4),
                 VersionB |-> Str(d.VersionB, 4),
                 ProgramName |-> IF cvariant = "main" THEN Str("ucd", 3)
                                 ELSE EmptyStr,
                 ProgramDesc |-> EmptyStr]
  /\ pc' = "start"
  /\ acc' = NoLocals
  /\ UNCHANGED <<variant, prompt, sent, resp, reply, responseText, parsed,
                 ret>>
  /\ UNCHANGED <<cvariant, cfg, cpc, dirs, made, tempDir, cleanup, cret,
                 removed, ran>>

\* The deadline of analyzeData's context passes while the model is asked:
\* GenerateContent returns the context's error.
Timeout ==
  /\ cvariant = "main"
  /\ pc = "call"
  /\ sent' = Append(sent, prompt)
  /\ resp' = ErrorAnswer
  /\ reply' = <<>>
  /\ pc' = "reply"
  /\ UNCHANGED <<variant, data, prompt, responseText, parsed, ret>>

\* One run of the command: Service.AnalyzeGit on a Collector made WithGit and
\* the Analyzer, under main's context.Background(); or main.go's collectData
\* from files and analyzeData, under a context with a deadline.
InitS ==
  /\ InitCollect
  /\ cvariant \in {"collector", "main"}
  /\ cvariant = "collector" =>
       /\ cfg.repoURL # ""
       /\ cfg.diffPath = ""
       /\ cfg.changelogPath = ""
       /\ cfg.commitMsgs = ""
  /\ variant = IF cvariant = "collector" THEN "part_006" ELSE "analyze"
  /\ data = Data(EmptyStr)
  /\ pc = "idle"
  /\ prompt = <<>>
  /\ sent = <<>>
  /\ resp = ErrorAnswer
  /\ reply = <<>>
  /\ responseText = <<>>
  /\ parsed = <<>>
  /\ ret = NoReturn
  /\ ReportIdle
NextS ==
  \/ CollectStart /\ UNCHANGED <<avars, rvars>>
  \/ LookPath /\ UNCHANGED <<avars, rvars>>
  \/ MkdirTemp /\ UNCHANGED <<avars, rvars>>
  \/ Clone /\ UNCHANGED <<avars, rvars>>
  \/ GitDiff /\ UNCHANGED <<avars, rvars>>
  \/ GitLog /\ UNCHANGED <<avars, rvars>>
  \/ FindChangelog /\ UNCHANGED <<avars, rvars>>
  \/ ShowA /\ UNCHANGED <<avars, rvars>>
  \/ ShowB /\ UNCHANGED <<avars, rvars>>
  \/ DiffChangelog /\ UNCHANGED <<avars, rvars>>
  \/ ReadDiff /\ UNCHANGED <<avars, rvars>>
  \/ ReadCommits /\ UNCHANGED <<avars, rvars>>
  \/ ReadChangelog /\ UNCHANGED <<avars, rvars>>
  \/ Cleanup /\ UNCHANGED <<avars, rvars>>
  \/ Analyze /\ UNCHANGED rvars
  \/ BuildPrompt /\ UNCHANGED <<cvars, rvars>>
  \/ GenerateContent /\ UNCHANGED <<cvars, rvars>>
  \/ Timeout /\ UNCHANGED <<cvars, rvars>>
  \/ Finish /\ UNCHANGED <<cvars, rvars>>
SpecService == InitS /\ [][NextS]_vars

\* The run, or any other use of one Collector: Collect and Cleanup called in
\* any order and any number of times before the analysis.
NextU ==
  \/ NextS
  \/ CollectAgain /\ UNCHANGED <<avars, rvars>>
SpecUse == InitS /\ [][NextU]_vars

\* The run with a clock that goes on: a deadline that is set passes while the
\* call waits. Nothing makes the model answer.
FairService ==
  /\ SpecService
  /\ WF_vars(Timeout /\ UNCHANGED <<cvars, rvars>>)

\* ------------------------------------------------------------- the claims

\* The analysis has returned, and the parser ran on the model's text.
ParserRan == pc = "done" /\ parsed # <<>>

\* C1: after a git-mode Collect has returned, on whatever path, the
\* temporary directory made for the run's clone does not exist.
TempDirGoneOnReturn ==
  (cpc = "returned" /\ cfg.repoURL # "") => tempDir \notin dirs

\* C2: a rendered prompt longer than the maximum length ends the analysis
\* with the 'too much data to analyze' error before the model is called, and
\* every prompt the model is given is the rendered prompt, whole.
LongPromptRejected ==
  /\ (pc # "start"
      /\ TextLen(Render(data, variant)) > maxPromptLength(variant))
       => /\ pc = "done"
          /\ ret.err.msg = "too much data to analyze"
          /\ sent = <<>>
  /\ \A k \in 1..Len(sent) : sent[k] = Render(data, variant)

\* What json.Unmarshal says of the text t in iteration v.
DecodeError(t, v) ==
  IF v = "part_006" THEN UnmarshalChanges(t).err
  ELSE UnmarshalResult(t, v).err

\* C3: when the extracted payload does not decode, the parser returns no
\* Result, and an error that carries the decoder's error and the extracted
\* text.
DecodeFailureGivesNoResult ==
  (ParserRan /\ parsed[1].decoded
   /\ DecodeError(parsed[1].jsonText, variant) # "")
    => /\ parsed[1].res = <<>>
       /\ parsed[1].err.cause = DecodeError(parsed[1].jsonText, variant)
       /\ parsed[1].err.text = parsed[1].jsonText

\* The findings the payload was written with.
CarriedBy(payload) ==
  CHOOSE fs \in FindingLists :
    payload \in ArrayPayloadsOf(fs)
                \cup UNION {ObjectPayloadsOf(key, fs) : key \in ListKeys}

\* The findings fs as the structs of iteration v.
AsStructs(fs, v) ==
  [k \in 1..Len(fs) |-> DecodeStruct(fs[k], 1, StrFields(v), IntFields(v)).val]

\* C4: the parser of analyze.go gives an error or a Result whose findings
\* are the payload's; a payload of another schema is not turned into a
\* Result without findings.
ParserNeverSwallows ==
  (ParserRan /\ variant = "analyze"
   /\ reply[1].payload \in ObjectPayloads \cup ArrayPayloads
   /\ parsed[1].err = NoError)
    => parsed[1].res[1].changes = AsStructs(CarriedBy(reply[1].payload), variant)

\* C5: a successful parse gives no changes exactly when the extracted payload
\* is "[]".
EmptyIffEmptyArray ==
  (ParserRan /\ parsed[1].err = NoError /\ parsed[1].res # <<>>)
    => (parsed[1].res[1].changes = <<>>
        <=> parsed[1].jsonText = EmptyArrayText)

\* The outcome of a parse: the Result and the kind of the error.
Outcome(p) == [res |-> p.res, kind |-> p.err.msg]

\* C6: a payload in a fence, labeled or not, parses as the payload alone
\* does.
FenceMakesNoDifference ==
  (ParserRan /\ reply # <<>>
   /\ reply[1].payload \in ObjectPayloads \cup ArrayPayloads
   /\ reply[1].fence # "none" /\ reply[1].around = "none"
   /\ responseText = ResponseOf(reply[1]))
    => Outcome(parsed[1]) = Outcome(Parse(reply[1].payload, variant))

\* The text holds a JSON object or a JSON array.
ContainsJSON(t) ==
  \E a \in 1..Len(t) : \E b \in a..Len(t) :
    /\ t[a] \in {LBRACE, LBRACK}
    /\ t[b] \in {RBRACE, RBRACK}
    /\ Valid(Slice(t, a, b))

\* C7: on a text without JSON object or array the parser fails with the
\* extraction error, which carries the text, and the decoder does not run.
NoJSONIsExtractionError ==
  (ParserRan /\ ~ContainsJSON(responseText))
    => /\ parsed[1].res = <<>>
       /\ ~parsed[1].decoded
       /\ parsed[1].err # NoError
       /\ parsed[1].err.cause = ""
       /\ parsed[1].err.text = responseText

\* C8: no change of a returned Result has a description that matches the
\* noise pattern.
NoiseDropped ==
  (pc = "done" /\ ret.res # <<>>)
    => \A k \in 1..Len(ret.res[1].changes) :
         ~skipChangePattern(ret.res[1].changes[k].s["description"])

\* The scores of an assessment are all between 0 and 10.
ScoresInRange(a) == \A f \in DOMAIN a.i : a.i[f] \in 0..10

\* C9: in a Result that analyze.go's pipeline returns without error, the
\* scores of every change and of the summary are between 0 and 10.
ScoresBounded ==
  (pc = "done" /\ variant = "analyze" /\ ret.err = NoError /\ ret.res # <<>>)
    => /\ \A k \in 1..Len(ret.res[1].changes) :
            ScoresInRange(ret.res[1].changes[k])
       /\ \A k \in 1..Len(ret.res[1].summary) :
            ScoresInRange(ret.res[1].summary[k])

\* A git-mode Collect has returned after clone, diff and log succeeded and
\* the extraction of the changelog failed.
ChangelogFailed ==
  cpc = "returned" /\ cfg.repoURL # "" /\ acc.changelogErr # NoError

\* C10: in git mode, when the changelog cannot be extracted after clone, diff
\* and log succeeded, Collect returns without error the diff and the commit
\* messages that git printed, and "No CHANGELOG found." as the changelog.
SentinelOnChangelogFailure ==
  ChangelogFailed
    => /\ cret.err = NoError
       /\ cret.data # <<>>
       /\ cret.data[1].Diff = acc.diff
       /\ cret.data[1].CommitMessages = acc.commitMsgs
       /\ cret.data[1].Changelog = NoChangelogFound

\* C10's case: a git-mode run of which git printed a diff and a log and in
\* which a snapshot of the changelog could not be read.
SentinelOnChangelogFailureWitness ==
  /\ ChangelogFailed
  /\ acc.found
  /\ acc.diff # EmptyStr
  /\ acc.commitMsgs # EmptyStr
  /\ cret.data # <<>>

\* The operations whose failure ends a git-mode collection.
FatalOps == {"lookpath", "mkdir", "clone", "diff", "log"}

\* C11: a failed git lookup, directory creation, clone, diff or log is the
\* last operation Collect runs, and Collect then has returned an error and no
\* AnalysisData; when Collect has returned it gave either an AnalysisData and
\* no error or an error and no AnalysisData, the AnalysisData holding what
\* was collected.
FailureAbortsCollect ==
  /\ \A k \in 1..Len(ran) :
       (ran[k][1] \in FatalOps /\ ~ran[k][2])
         => /\ k = Len(ran)
            /\ cpc = "returned"
            /\ cret.err # NoError
            /\ cret.data = <<>>
  /\ cpc = "returned"
       => /\ cret.data = <<>> <=> cret.err # NoError
          /\ cret.data # <<>>
               => cret.data[1] = AnalysisDataOf(cvariant, cfg, acc)

\* C11's case: git diff failed after a clone that succeeded, and Collect has
\* returned.
FailureAbortsCollectWitness ==
  /\ cpc = "returned"
  /\ Len(ran) = 4
  /\ ran[3] = <<"clone", TRUE>>
  /\ ran[4] = <<"diff", FALSE>>
  /\ cret.err # NoError

\* errors.Is(err, target): err is target, or wraps it with %w.
ErrorsIs(err, target) == err # NoError /\ err.msg = target.msg

\* Collect has returned from the file mode (the versions were accepted).
FileModeReturned ==
  cpc = "returned" /\ cfg.repoURL = "" /\ acc.versionA # ""

\* C12: in file mode of changes.go and of main.go, when the path of the diff
\* file is empty or the file cannot be read, Collect returns no AnalysisData
\* and an error that is, or wraps, ErrDiffNotFound.
DiffFileFailureIsErrDiffNotFound ==
  (FileModeReturned /\ cvariant \in {"collector", "config"}
   /\ (cfg.diffPath = "" \/ <<"readdiff", FALSE>> \in {ran[k] : k \in 1..Len(ran)}))
    => /\ cret.data = <<>>
       /\ ErrorsIs(cret.err, ErrDiffNotFound)

\* C13: in file mode, once the diff file is read, Collect succeeds whatever
\* the changelog: without a changelog path the changelog is "No CHANGELOG
\* provided.", and with a path that cannot be read it is another sentinel,
\* which tells of the failed read.
ChangelogIsBestEffort ==
  (FileModeReturned
   /\ <<"readdiff", TRUE>> \in {ran[k] : k \in 1..Len(ran)}
   /\ <<"readcommits", FALSE>> \notin {ran[k] : k \in 1..Len(ran)})
    => /\ cret.err = NoError
       /\ cret.data # <<>>
       /\ cfg.changelogPath = ""
            => cret.data[1].Changelog = NoChangelogProvided
       /\ <<"readchangelog", FALSE>> \in {ran[k] : k \in 1..Len(ran)}
            => /\ cret.data[1].Changelog = FailedToReadChangelog(cvariant)
               /\ cret.data[1].Changelog # NoChangelogProvided

\* The severity of a finding: its rating or, where it has two risk scores,
\* the higher of them.
Severity(c) ==
  IF "rating" \in DOMAIN c.i THEN c.i["rating"]
  ELSE Max({c.i["malware_risk"], c.i["silent_patch"]})

\* C14: the findings of a Result are presented from most to least severe:
\* every finding written has a severity greater than or equal to that of the
\* finding written after it.
PresentedBySeverity ==
  rpc = "shown"
    => \A k \in 1..(Len(shown.lines) - 1) :
         Severity(shown.lines[k].of) >= Severity(shown.lines[k + 1].of)

\* out holds the elements of in, and those of equal severity in the order
\* they have in in.
StablyRanked(in, out) ==
  \E f \in [1..Len(in) -> 1..Len(in)] :
    /\ Len(out) = Len(in)
    /\ \A i, j \in 1..Len(in) : f[i] = f[j] => i = j
    /\ \A k \in 1..Len(in) : out[k] = in[f[k]]
    /\ \A i, j \in 1..Len(in) :
         (i < j /\ Severity(out[i]) = Severity(out[j])) => f[i] < f[j]

\* C15: SortByRating is stable: two changes of equal severity stand in the
\* ranked sequence in the relative order they had before.
RankingIsStable ==
  [][(rpc = "result" /\ rpc' = "sorted") => StablyRanked(changes, changes')]_vars

\* C16: Result.Format leaves the receiver's Changes as they were, the same
\* elements in the same order: what it sorts is a copy.
FormatKeepsChanges ==
  [][(rvariant = "part_005" /\ rpc' = "shown") => changes' = changes]_vars

\* Format has written, most severe first, a Result whose Changes are not in
\* that order.
FormatKeepsChangesWitness ==
  /\ rvariant = "part_005"
  /\ rpc = "shown"
  /\ Len(changes) = 2
  /\ Severity(changes[1]) < Severity(changes[2])
  /\ Len(shown.lines) = 2
  /\ shown.lines[1].of = changes[2]
  /\ shown.lines[2].of = changes[1]

\* The spellings of each of the five rating labels, its Rating and its glyph.
RatingLabels ==
  <<[rating |-> RatingBenign, glyph |-> "U+1F7E2",
     written |-> {"benign", "Benign", "BENIGN", "bEnIgN"}],
    [rating |-> RatingSilentSecurityFix, glyph |-> "U+1F6E1 U+FE0F",
     written |-> {"silent security fix", "Silent Security Fix",
                  "SILENT SECURITY FIX", "sIlEnT sEcUrItY fIx"}],
    [rating |-> RatingSuspicious, glyph |-> "U+1F7E0",
     written |-> {"suspicious", "Suspicious", "SUSPICIOUS", "sUsPiCiOuS"}],
    [rating |-> RatingPossiblyMalicious, glyph |-> "U+1F6A8",
     written |-> {"possibly malicious", "Possibly Malicious",
                  "POSSIBLY MALICIOUS", "pOsSiBlY mAlIcIoUs"}],
    [rating |-> RatingDefinitelyMalicious, glyph |-> "U+1F608",
     written |-> {"definitely malicious", "Definitely Malicious",
                  "DEFINITELY MALICIOUS", "dEfInItElY mAlIcIoUs"}]>>

\* C17: a finding whose label is one of the five rating labels, in whatever
\* letter case, is converted to that label's Rating and written with that
\* label's glyph; the five Ratings are distinct and in the order Benign,
\* Silent Security Fix, Suspicious, Possibly Malicious, Definitely Malicious,
\* and no two of them have the same glyph.
RatingsFoldCase ==
  /\ \A m \in 1..4 : RatingLabels[m].rating < RatingLabels[m + 1].rating
  /\ \A m, n \in 1..5 :
       RatingString(RatingLabels[m].rating)
         = RatingString(RatingLabels[n].rating) => m = n
  /\ (rvariant = "part_005" /\ rpc \in {"result", "sorted", "shown"})
       => \A k \in 1..Len(items) : \A m \in 1..5 :
            items[k].s["rating"][1] \in RatingLabels[m].written
              => /\ \E c \in 1..Len(changes) :
                      /\ changes[c].s["description"]
                           = items[k].s["description"]
                      /\ changes[c].i["rating"] = RatingLabels[m].rating
                 /\ rpc = "shown"
                      => \E c \in 1..Len(shown.lines) :
                           shown.lines[c].text
                             = <<RatingLabels[m].glyph, " ">>
                                 \o items[k].s["description"]

\* Two findings labelled in upper and in mixed case have been converted and
\* written.
RatingsFoldCaseWitness ==
  /\ rvariant = "part_005"
  /\ rpc = "shown"
  /\ Len(items) = 2
  /\ items[1].s["rating"] = <<"bEnIgN">>
  /\ items[2].s["rating"] = <<"DEFINITELY MALICIOUS">>
  /\ shown.lines[1].text = <<"U+1F608", " ", "adds backdoor">>
  /\ shown.lines[2].text = <<"U+1F7E2", " ", "adds backdoor">>

\* The finding, as written by the model, has a string for a rating, and the
\* string is none of the five labels in any letter case.
UnrecognizedLabel(f) ==
  LET d == DecodeStruct(f, 1, StrFields("part_006"), IntFields("part_006"))
  IN /\ ~d.err
     /\ Len(d.val.s["rating"]) = 1
     /\ \A m \in 1..5 : d.val.s["rating"][1] \notin RatingLabels[m].written

\* The parser of part_006 was given, whole and with nothing around it, an
\* array of findings that all have a string for a rating.
RatedArrayParsed ==
  /\ ParserRan
  /\ variant = "part_006"
  /\ reply[1].payload \in ArrayPayloads
  /\ reply[1].fence = "none"
  /\ reply[1].around = "none"
  /\ responseText = ResponseOf(reply[1])
  /\ \A k \in 1..Len(CarriedBy(reply[1].payload)) :
       ~DecodeStruct(CarriedBy(reply[1].payload)[k], 1, StrFields("part_006"),
                     IntFields("part_006")).err

\* C18: in part_006, a finding whose rating label is none of the five labels
\* does not make the parse fail, and it is in the Result with its description
\* and the rating RatingUnknown.
UnknownLabelKept ==
  RatedArrayParsed
    => \A k \in 1..Len(CarriedBy(reply[1].payload)) :
         UnrecognizedLabel(CarriedBy(reply[1].payload)[k])
           => /\ parsed[1].err = NoError
              /\ parsed[1].res # <<>>
              /\ \E c \in 1..Len(parsed[1].res[1].changes) :
                   /\ parsed[1].res[1].changes[c].s["description"]
                        = AsStructs(CarriedBy(reply[1].payload),
                                    "part_006")[k].s["description"]
                   /\ parsed[1].res[1].changes[c].i["rating"] = RatingUnknown

\* part_006 has parsed an array with a finding labelled "Weird" and returned
\* a Result.
UnknownLabelKeptWitness ==
  /\ RatedArrayParsed
  /\ \E k \in 1..Len(CarriedBy(reply[1].payload)) :
       UnrecognizedLabel(CarriedBy(reply[1].payload)[k])
  /\ ret.err = NoError
  /\ ret.res # <<>>
  /\ Len(ret.res[1].changes) = 1

\* C19: when the model answers without a candidate, or with a first
\* candidate that has no content or no parts, the analysis ends with the
\* 'no response' error and without a Result, and the parser is not called.
NoResponseIsError ==
  (/\ pc = "done"
   /\ sent # <<>>
   /\ ~resp.err
   /\ \/ resp.candidates = <<>>
      \/ ~resp.candidates[1].content
      \/ resp.candidates[1].parts = <<>>)
    => /\ ~ret.panic
       /\ ret.err.msg \in {"no response from AI model",
                           "no response or valid parts from AI model"}
       /\ ret.res = <<>>
       /\ parsed = <<>>

\* C20: when the first candidate has several parts, the text the parser is
\* given is the texts of all the parts, one after the other in their order.
AllPartsParsed ==
  (ParserRan /\ Len(resp.candidates[1].parts) > 1)
    => responseText = ConcatParts(resp.candidates[1].parts)

\* The versions Collect works with are the configuration's, "v0" and "v1"
\* standing for the empty ones: in its locals, which its commands are made
\* of, and in the AnalysisData it returns.
VersionsGivenOrDefault ==
  LET va == IF cfg.versionA = "" THEN "v0" ELSE cfg.versionA
      vb == IF cfg.versionB = "" THEN "v1" ELSE cfg.versionB
  IN /\ cret.err # ErrMissingVersion
     /\ acc.versionA = va
     /\ acc.versionB = vb
     /\ cret.data # <<>>
          => cret.data[1].VersionA = va /\ cret.data[1].VersionB = vb

MissingVersionBeforeEffects ==
  (cvariant = "collector" /\ (cfg.versionA = "" \/ cfg.versionB = ""))
    => /\ made = 0
       /\ dirs = {}
       /\ ran = <<>>
       /\ cpc \in {"idle", "returned"}
       /\ cpc = "returned"
            => cret = [data |-> <<>>, err |-> ErrMissingVersion]

\* A git-mode Collector without versionB has returned from Collect.
MissingVersionBeforeEffectsWitness ==
  /\ cvariant = "collector"
  /\ cfg.repoURL # ""
  /\ cfg.versionA = "v1.0"
  /\ cfg.versionB = ""
  /\ cpc = "returned"
  /\ cret.err = ErrMissingVersion

\* Both snapshots of the changelog were read and the diff tool has run.
SnapshotsCompared ==
  /\ cpc = "returned"
  /\ cfg.repoURL # ""
  /\ <<"difftool", TRUE>> \in {ran[k] : k \in 1..Len(ran)}

\* The lines the unified diff of a and b marks as added, without the marker.
MarkedAdded(a, b) ==
  LET plus == SelectSeq(EditScript(a, b), LAMBDA l : l[1] = "+")
  IN [k \in 1..Len(plus) |-> Tail(plus[k])]

\* C26: in part_001 the changelog is the lines that the unified diff of the
\* two snapshots marks as added, in order and without the marker, whatever
\* they hold, and nothing else; it is empty, and so replaced by the sentinel
\* of collectFromGit, when the snapshots are equal.
AddedLinesReturned ==
  (SnapshotsCompared /\ cvariant = "part_001")
    => acc.changelog =
         IF MarkedAdded(acc.contentA, acc.contentB) \in {<<>>, <<<<>>>>}
         THEN NoChangelogFound
         ELSE MarkedAdded(acc.contentA, acc.contentB)

\* C27: once both snapshots are read, the changelog is the comparison of the
\* versionA snapshot with the versionB snapshot: it holds every line that
\* versionB has and versionA lacks, and the exit status of the diff tool is
\* no error.
DeltaHoldsNewLines ==
  SnapshotsCompared
    => /\ acc.changelogErr = NoError
       /\ \A k \in 1..Len(acc.contentB) :
            (\A j \in 1..Len(acc.contentA) :
               acc.contentA[j] # acc.contentB[k])
              => \E m \in 1..Len(acc.changelog) :
                   \/ acc.changelog[m] = acc.contentB[k]
                   \/ acc.changelog[m] = <<"+">> \o acc.contentB[k]

\* C30: a git-mode Collect that succeeds returns a changelog that is not
\* the empty string: where the changelog could not be extracted, and where
\* the comparison of the snapshots gave no text, it is "No CHANGELOG found.".
ChangelogNeverEmpty ==
  (cpc = "returned" /\ cfg.repoURL # "" /\ cret.data # <<>>)
    => /\ cret.data[1].Changelog \notin {<<>>, <<<<>>>>}
       /\ (\/ acc.changelogErr # NoError
           \/ /\ SnapshotsCompared
              /\ ChangelogDelta(cvariant, acc.contentA, acc.contentB,
                                acc.versionA, acc.versionB)
                   \in {<<>>, <<<<>>>>})
            => cret.data[1].Changelog = NoChangelogFound

\* part_001 has compared two snapshots of which the later adds one blank
\* line, and Collect has returned the sentinel.
ChangelogNeverEmptyWitness ==
  /\ SnapshotsCompared
  /\ cvariant = "part_001"
  /\ acc.contentA = <<Line("# Changelog")>>
  /\ acc.contentB = <<Line("# Changelog"), <<>>>>
  /\ cret.data # <<>>
  /\ cret.data[1].Changelog = NoChangelogFound

\* C25: of a response that holds one JSON payload (an object; for part_006
\* an array), in a fence or not, with or without prose around it, extractJSON
\* returns the payload: the content of the fenced block, or the first
\* top-level object, and nothing of the text that follows its closing brace.
PayloadExtracted ==
  (/\ ParserRan
   /\ reply # <<>>
   /\ responseText = ResponseOf(reply[1])
   /\ reply[1].payload \in (IF variant = "part_006" THEN ArrayPayloads
                            ELSE ObjectPayloads))
    => parsed[1].jsonText = reply[1].payload

\* C23: a prompt that buildPrompt returned holds the diff, the commit
\* messages and the changelog of the AnalysisData, each whole and as it is,
\* in that order, and the AnalysisData is one the run was given.
PromptHoldsEvidence ==
  (pc # "start" /\ prompt # <<>>)
    => /\ \E i, j, k \in 1..Len(prompt) :
            /\ i < j
            /\ j < k
            /\ prompt[i] = data.Diff
            /\ prompt[j] = data.CommitMessages
            /\ prompt[k] = data.Changelog
       /\ data \in DataSet(variant)

\* C21: in one run the stages follow each other in the order collect, build
\* prompt, model call, parse: the analysis starts only on what a Collect that
\* returned without error handed over, the prompt is built before the one
\* request, the request is made before anything is parsed, and the model is
\* asked at most once; a stage that fails ends the run with an error and no
\* later stage has acted: after a failed Collect nothing is built, sent or
\* parsed, after a failed prompt nothing is sent, after a model error nothing
\* is parsed, and a parse error, wrapped or not, is the run's error.
StagesRunOnceInOrder ==
  /\ Len(sent) <= 1
  /\ pc # "idle" => cpc = "returned" /\ cret.err = NoError /\ cret.data # <<>>
  /\ pc \in {"idle", "start"} =>
       prompt = <<>> /\ sent = <<>> /\ parsed = <<>> /\ ret = NoReturn
  /\ pc = "call" => sent = <<>> /\ parsed = <<>> /\ ret = NoReturn
  /\ pc = "reply" => sent = <<prompt>> /\ parsed = <<>> /\ ret = NoReturn
  /\ pc = "done" =>
       /\ ret # NoReturn
       /\ sent = <<>> => prompt = <<>> /\ parsed = <<>> /\ ret.err # NoError
       /\ sent # <<>> => sent = <<prompt>>
       /\ resp.err => parsed = <<>> /\ ret # Panic /\ ret.err # NoError
       /\ parsed # <<>> =>
            /\ ~resp.err
            /\ parsed[1].err # NoError =>
                 /\ ret # Panic
                 /\ ret.err \in {parsed[1].err,
                               Wrap("parse failure", parsed[1].err)}

\* A run whose four stages all acted: git clone succeeded, the prompt was
\* sent once and the answer was parsed.
StagesRunOnceInOrderWitness ==
  /\ pc = "done"
  /\ cfg.repoURL # ""
  /\ <<"clone", TRUE>> \in {ran[k] : k \in DOMAIN ran}
  /\ sent = <<prompt>>
  /\ parsed # <<>>
  /\ parsed[1].err = NoError

\* C22: every model call ends: the model answers, or the caller's deadline
\* passes and the call returns an error; no run waits for the model forever.
ModelCallEnds == (pc = "call") ~> (pc = "reply")

\* C29: whatever Collect and Cleanup calls one Collector gets, every temporary
\* directory that setupRepo created is there or was removed, and none was
\* removed twice; when no Collect is running the cleanup function is nil and no
\* directory is left; the nil cleanup function names no directory, so a
\* Cleanup with nothing to release changes nothing; and from the moment the
\* analysis is handed the data no directory is left.
CollectorReleasesOnce ==
  cvariant = "collector" =>
    /\ \A i, j \in DOMAIN removed : removed[i] = removed[j] => i = j
    /\ dirs \cup {removed[i] : i \in DOMAIN removed} = 1..made
    /\ dirs \cap {removed[i] : i \in DOMAIN removed} = {}
    /\ 0 \notin dirs
    /\ cpc \in {"idle", "returned"} => cleanup = 0 /\ dirs = {}
    /\ cleanup # 0 => cleanup = tempDir /\ dirs = {tempDir}
    /\ pc # "idle" => cleanup = 0 /\ dirs = {}

\* The Collector ran Collect twice, each run made a directory and each
\* directory was removed, and the analysis ran on what the second returned.
CollectorReleasesOnceWitness ==
  /\ cvariant = "collector"
  /\ made = 2
  /\ removed = <<1, 2>>
  /\ dirs = {}
  /\ cret.err = NoError
  /\ pc = "done"

====
